---- MODULE Spec2Model ----
(***************************************************************************)
(* A model of pyClarion/default/common.py: the activation channels         *)
(* (TopDown, BottomUp), the associative Rule, the MaxJunction, the         *)
(* BoltzmannSelector and the statistics trackers BLA and MatchStatistics.  *)
(*                                                                         *)
(* Python floats are modelled as exact rationals <<numerator, denominator>>*)
(* in lowest terms with a positive denominator: rounding, overflow and NaN *)
(* of IEEE doubles are outside the model.  The two transcendental          *)
(* operations of the file, x ** 1.1 and numpy.exp, are kept symbolic.      *)
(***************************************************************************)
EXTENDS Integers, Sequences, FiniteSets, TLC

VARIABLES topdown, bottomup, rule, junction, selector, bla, stats

vars == <<topdown, bottomup, rule, junction, selector, bla, stats>>

\* The value of a component that the running specification does not use.
Idle == [pc |-> "idle"]

-----------------------------------------------------------------------------
(* Exact rational arithmetic standing for Python's float arithmetic.       *)

Abs(n) == IF n < 0 THEN -n ELSE n

RECURSIVE GCD(_, _)
GCD(a, b) == IF b = 0 THEN a ELSE GCD(b, a % b)

\* n / d in lowest terms, d # 0.
Norm(n, d) ==
    LET g == GCD(Abs(n), Abs(d))
        s == IF d < 0 THEN -1 ELSE 1
    IN  <<(s * n) \div g, (s * d) \div g>>

R(n) == <<n, 1>>
Q(n, d) == Norm(n, d)

RAdd(a, b) == Norm(a[1] * b[2] + b[1] * a[2], a[2] * b[2])
RSub(a, b) == Norm(a[1] * b[2] - b[1] * a[2], a[2] * b[2])
RMul(a, b) == Norm(a[1] * b[1], a[2] * b[2])
\* a / b for b # 0; Python raises ZeroDivisionError for b = 0, which every
\* caller below tests before dividing.
RDiv(a, b) == Norm(a[1] * b[2], a[2] * b[1])
RLess(a, b) == a[1] * b[2] < b[1] * a[2]
RIsZero(a) == a[1] = 0

\* The sum of f[x] over the finite set S, 0. for the empty set.
RECURSIVE RSum(_, _)
RSum(S, f) ==
    IF S = {} THEN R(0)
    ELSE LET x == CHOOSE y \in S : TRUE
         IN  RAdd(f[x], RSum(S \ {x}, f))

\* A dict with keys among K and values in V.
PartialMaps(K, V) == UNION {[S -> V] : S \in SUBSET K}

EmptyMap == [x \in {} |-> R(0)]

-----------------------------------------------------------------------------
(* The node model the file consumes: microfeatures are (dimension, value)  *)
(* pairs, chunks are identities owning a microfeature set and a            *)
(* dimension-to-weight mapping.                                            *)

White  == <<"Color", "White">>
Black  == <<"Color", "Black">>
Square == <<"Shape", "Square">>
Circle == <<"Shape", "Circle">>
Features == {White, Black, Square, Circle}

Chunk1 == <<"Chunk", "1">>
Chunk2 == <<"Chunk", "2">>
Chunk3 == <<"Chunk", "3">>

\* Microfeature.dim()
dim(f) == f[1]

Dims(microfeatures) == {dim(f) : f \in microfeatures}
AllDims == Dims(Features)

\* Weights a chunk may give a dimension (non-negative).
Weights == {R(0), Q(1, 2), R(1)}

\* Chunks with identity id: any microfeature set, and a weight mapping that
\* covers at least the dimensions of the microfeatures.
Chunks(id) ==
    UNION { UNION { { [id |-> id, microfeatures |-> m, dim2weight |-> w]
                      : w \in [D -> Weights] }
                    : D \in {E \in SUBSET AllDims : Dims(m) \subseteq E} }
            : m \in SUBSET Features }

-----------------------------------------------------------------------------
(* TopDown                                                                 *)

\* Activations a TopDown input may carry.
TopDownStrengths == {R(-1), Q(1, 2), R(1)}
TopDownKeys == {Chunk1, Chunk2, White, Square}

\* A slip that counts all of the chunk's microfeatures for every dimension.
count_values_all(microfeatures) ==
    [d \in Dims(microfeatures) |-> Cardinality(microfeatures)]

count_values(microfeatures) ==
    [d \in Dims(microfeatures) |->
        Cardinality({f \in microfeatures : dim(f) = d})]

\* A slip that reads a missing chunk as strength 0. instead of returning {}.
TopDown__call__default0(self, input_map) ==
    LET strength == IF self.chunk.id \in DOMAIN input_map
                    THEN input_map[self.chunk.id] ELSE R(0)
    IN  [f \in self.chunk.microfeatures |->
            RDiv(RMul(strength, self.chunk.dim2weight[dim(f)]),
                 R(self.val_counts[dim(f)]))]

TopDown__call__(self, input_map) ==
    IF self.chunk.id \notin DOMAIN input_map
    THEN EmptyMap
    ELSE LET strength == input_map[self.chunk.id]
         IN  [f \in self.chunk.microfeatures |->
                RDiv(RMul(strength, self.chunk.dim2weight[dim(f)]),
                     R(self.val_counts[dim(f)]))]

TopDown__init__(chunk) ==
    [chunk |-> chunk, val_counts |-> count_values(chunk.microfeatures)]

InitTopDown ==
    /\ topdown \in { [pc |-> "ready", self |-> TopDown__init__(c),
                      input_map |-> i, result |-> EmptyMap]
                     : c \in Chunks(Chunk1),
                       i \in PartialMaps(TopDownKeys, TopDownStrengths) }
    /\ bottomup = Idle /\ rule = Idle /\ junction = Idle
    /\ selector = Idle /\ bla = Idle /\ stats = Idle

TopDownCall ==
    /\ topdown.pc = "ready"
    /\ topdown' = [topdown EXCEPT
                     !.pc = "done",
                     !.result = TopDown__call__(topdown.self, topdown.input_map)]
    /\ UNCHANGED <<bottomup, rule, junction, selector, bla, stats>>

NextTopDown == TopDownCall

SpecTopDown == InitTopDown /\ [][NextTopDown]_vars

\* C2: when the bound chunk is in the input with strength s, the output's keys
\* are exactly the chunk's microfeatures, each microfeature f gets
\* s * weight(dim f) / count(dim f), and for every dimension d of the chunk
\* the outputs of the chunk's microfeatures in d add up to s * weight(d).
C2_TopDownConservesPerDimension ==
    (topdown.pc = "done" /\ topdown.self.chunk.id \in DOMAIN topdown.input_map) =>
        LET c   == topdown.self.chunk
            s   == topdown.input_map[c.id]
            out == topdown.result
            InDim(d) == {f \in c.microfeatures : dim(f) = d}
        IN  /\ DOMAIN out = c.microfeatures
            /\ \A f \in c.microfeatures :
                  out[f] = RDiv(RMul(s, c.dim2weight[dim(f)]),
                                R(Cardinality(InDim(dim(f)))))
            /\ \A d \in Dims(c.microfeatures) :
                  RSum(InDim(d), out) = RMul(s, c.dim2weight[d])

\* A call with the chunk present, two microfeatures sharing a dimension of
\* non-zero weight, and a non-zero strength.
C2_Witness ==
    /\ topdown.pc = "done"
    /\ topdown.self.chunk.id \in DOMAIN topdown.input_map
    /\ ~RIsZero(topdown.input_map[topdown.self.chunk.id])
    /\ {White, Black} \subseteq topdown.self.chunk.microfeatures
    /\ ~RIsZero(topdown.self.chunk.dim2weight["Color"])
    /\ topdown.result[White] = RDiv(topdown.input_map[topdown.self.chunk.id], R(2))

\* C8: when the bound chunk is not a key of the input, the call returns an
\* empty map, whatever else the input holds.
C8_TopDownMissingChunkGivesEmptyMap ==
    (topdown.pc = "done" /\ topdown.self.chunk.id \notin DOMAIN topdown.input_map) =>
        DOMAIN topdown.result = {}

\* A call whose input lacks the bound chunk but holds another chunk and one of
\* the bound chunk's own microfeatures.
C8_Witness ==
    /\ topdown.pc = "done"
    /\ topdown.self.chunk.id \notin DOMAIN topdown.input_map
    /\ Chunk2 \in DOMAIN topdown.input_map
    /\ White \in DOMAIN topdown.input_map
    /\ White \in topdown.self.chunk.microfeatures
    /\ DOMAIN topdown.result = {}

-----------------------------------------------------------------------------
(* BottomUp                                                                *)

\* Activations a BottomUp input may carry.
BottomUpActivations == {R(-1), R(0), R(1)}

\* dict[k] = v
Put(m, k, v) == [x \in DOMAIN m \cup {k} |-> IF x = k THEN v ELSE m[x]]

\* The orders in which a Python set may be iterated.
Orders(S) == {o \in [1..Cardinality(S) -> S] : {o[i] : i \in DOMAIN o} = S}

\* x ** 1.1, kept symbolic; it is 0.0 exactly when x is 0.
Pow11(x) == [base |-> x, exponent |-> Q(11, 10)]
Pow11IsZero(p) == RIsZero(p.base)

\* The loop of lines 105-118 over the microfeatures in iteration order.
RECURSIVE BottomUpMaxima(_, _, _, _)
BottomUpMaxima(order, i, input_map, dim2activation) ==
    IF i > Len(order) THEN dim2activation
    ELSE LET f == order[i]
             d == dim(f)
             next ==
                IF d \in DOMAIN dim2activation /\ f \in DOMAIN input_map
                THEN IF RLess(dim2activation[d], input_map[f])
                     THEN Put(dim2activation, d, input_map[f])
                     ELSE dim2activation
                ELSE \* KeyError
                     IF f \in DOMAIN input_map
                     THEN Put(dim2activation, d, input_map[f])
                     ELSE dim2activation
         IN  BottomUpMaxima(order, i + 1, input_map, next)

\* A slip that follows the docstring: a missing microfeature counts as 0.
BottomUp__call__default0(self, input_map, order) ==
    LET total == RSum(DOMAIN self.chunk.dim2weight, self.chunk.dim2weight)
        filled == [f \in self.chunk.microfeatures |->
                     IF f \in DOMAIN input_map THEN input_map[f] ELSE R(0)]
        dim2activation == BottomUpMaxima(order, 1, filled, EmptyMap)
        strength == RSum(DOMAIN dim2activation,
                         [d \in DOMAIN dim2activation |->
                            RMul(self.chunk.dim2weight[d], dim2activation[d])])
    IN  IF Pow11IsZero(Pow11(total))
        THEN [raised |-> "ZeroDivisionError", value |-> EmptyMap]
        ELSE [raised |-> "none",
              value |-> [c \in {self.chunk.id} |->
                           [numerator |-> strength, divisor |-> Pow11(total)]]]

BottomUp__call__(self, input_map, order) ==
    LET dim2activation == BottomUpMaxima(order, 1, input_map, EmptyMap)
        strength == RSum(DOMAIN dim2activation,
                         [d \in DOMAIN dim2activation |->
                            RMul(self.chunk.dim2weight[d], dim2activation[d])])
        total == RSum(DOMAIN self.chunk.dim2weight, self.chunk.dim2weight)
    IN  IF Pow11IsZero(Pow11(total))
        THEN [raised |-> "ZeroDivisionError", value |-> EmptyMap]
        ELSE [raised |-> "none",
              value |-> [c \in {self.chunk.id} |->
                           [numerator |-> strength, divisor |-> Pow11(total)]]]

BottomUp__init__(chunk) == [chunk |-> chunk]

InitBottomUp ==
    /\ bottomup \in { [pc |-> "ready", self |-> BottomUp__init__(c),
                       input_map |-> i,
                       result |-> [raised |-> "none", value |-> EmptyMap]]
                      : c \in Chunks(Chunk1),
                        i \in PartialMaps(Features, BottomUpActivations) }
    /\ topdown = Idle /\ rule = Idle /\ junction = Idle
    /\ selector = Idle /\ bla = Idle /\ stats = Idle

BottomUpCall ==
    /\ bottomup.pc = "ready"
    /\ \E order \in Orders(bottomup.self.chunk.microfeatures) :
          bottomup' = [bottomup EXCEPT
                         !.pc = "done",
                         !.result = BottomUp__call__(bottomup.self,
                                                     bottomup.input_map, order)]
    /\ UNCHANGED <<topdown, rule, junction, selector, bla, stats>>

NextBottomUp == BottomUpCall

SpecBottomUp == InitBottomUp /\ [][NextBottomUp]_vars

\* The maximum of a non-empty set of rationals.
RMax(S) == CHOOSE x \in S : \A y \in S : ~RLess(x, y)

\* What C3 says the call returns: {chunk: numerator / total ** 1.1}, the
\* numerator summed over the dimensions with a present microfeature.
BottomUpExpected(c, input_map) ==
    LET Present(d) == {f \in c.microfeatures :
                          dim(f) = d /\ f \in DOMAIN input_map}
        D == {d \in Dims(c.microfeatures) : Present(d) # {}}
        numerator == RSum(D, [d \in D |->
                        RMul(c.dim2weight[d],
                             RMax({input_map[f] : f \in Present(d)}))])
        total == RSum(DOMAIN c.dim2weight, c.dim2weight)
    IN  [raised |-> "none",
         value |-> [k \in {c.id} |->
                      [numerator |-> numerator, divisor |-> Pow11(total)]]]

WeightTotal(c) == RSum(DOMAIN c.dim2weight, c.dim2weight)

-----------------------------------------------------------------------------
(* Rule                                                                    *)

RuleWeights == {R(0), Q(1, 2), R(1)}
RuleStrengths == {R(-1), Q(1, 2), R(1)}
RuleKeys == {Chunk1, Chunk2, Chunk3, White}
ConditionChunks == {Chunk1, Chunk2, Chunk3}
ConclusionChunks == {Chunk1, Chunk3}

Rule__init__(chunk2weight, conclusion_chunk) ==
    [chunk2weight |-> chunk2weight, conclusion_chunk |-> conclusion_chunk]

\* A slip that reads a missing condition chunk as fully active.
Rule__call__default1(self, input_map) ==
    LET strength == RSum(DOMAIN self.chunk2weight,
                         [chunk \in DOMAIN self.chunk2weight |->
                            RMul(IF chunk \in DOMAIN input_map
                                 THEN input_map[chunk] ELSE R(1),
                                 self.chunk2weight[chunk])])
    IN  [c \in {self.conclusion_chunk} |-> strength]

\* The loop adds a term for each condition chunk whose lookup in input_map
\* succeeds and skips (KeyError, continue) the others.
Rule__call__(self, input_map) ==
    LET found == DOMAIN self.chunk2weight \cap DOMAIN input_map
        strength == RSum(found,
                         [chunk \in found |->
                            RMul(input_map[chunk], self.chunk2weight[chunk])])
    IN  [c \in {self.conclusion_chunk} |-> strength]

InitRule ==
    /\ rule \in { [pc |-> "ready", self |-> Rule__init__(w, c),
                   input_map |-> i, result |-> EmptyMap]
                  : w \in PartialMaps(ConditionChunks, RuleWeights),
                    c \in ConclusionChunks,
                    i \in PartialMaps(RuleKeys, RuleStrengths) }
    /\ topdown = Idle /\ bottomup = Idle /\ junction = Idle
    /\ selector = Idle /\ bla = Idle /\ stats = Idle

RuleCall ==
    /\ rule.pc = "ready"
    /\ rule' = [rule EXCEPT !.pc = "done",
                            !.result = Rule__call__(rule.self, rule.input_map)]
    /\ UNCHANGED <<topdown, bottomup, junction, selector, bla, stats>>

NextRule == RuleCall

SpecRule == InitRule /\ [][NextRule]_vars

\* input_map without the entries of nodes that are not condition chunks.
OnConditions(self, input_map) ==
    [k \in DOMAIN input_map \cap DOMAIN self.chunk2weight |-> input_map[k]]

\* C4: the result is {conclusion: S}, S the sum over the condition chunks c of
\* weight(c) * input[c] with an absent c contributing 0; S is not normalized
\* and the input's entries for other nodes do not change it.
C4_RuleWeightedSum ==
    rule.pc = "done" =>
        LET self == rule.self
            w == self.chunk2weight
            S == RSum(DOMAIN w,
                      [c \in DOMAIN w |->
                         RMul(w[c], IF c \in DOMAIN rule.input_map
                                    THEN rule.input_map[c] ELSE R(0))])
        IN  /\ DOMAIN rule.result = {self.conclusion_chunk}
            /\ rule.result[self.conclusion_chunk] = S
            /\ Rule__call__(self, OnConditions(self, rule.input_map)) = rule.result

\* A rule with weights .5/.5 applied to an input that lacks one condition
\* chunk and holds the conclusion chunk and a microfeature.
C4_Witness ==
    /\ rule.pc = "done"
    /\ rule.self.chunk2weight = (Chunk1 :> Q(1, 2)) @@ (Chunk2 :> Q(1, 2))
    /\ rule.self.conclusion_chunk = Chunk3
    /\ rule.input_map = (Chunk2 :> R(1)) @@ (Chunk3 :> R(1)) @@ (White :> R(1))
    /\ rule.result = (Chunk3 :> Q(1, 2))

-----------------------------------------------------------------------------
(* MaxJunction                                                             *)

\* The largest number of maps passed to one call.
MaxMaps == 3
JunctionKeys == {Chunk1, White}
JunctionActivations == {R(-1), R(0), R(1)}

\* nodes.get_nodes: the nodes that are keys of some input map.
get_nodes(input_maps) ==
    UNION {DOMAIN input_maps[i] : i \in DOMAIN input_maps}

\* The inner loop of lines 194-205 for one node, over the maps in call order.
RECURSIVE MaxJunctionNode(_, _, _, _)
MaxJunctionNode(node, input_maps, i, activations) ==
    IF i > Len(input_maps) THEN activations
    ELSE LET input_map == input_maps[i]
             next ==
                IF node \in DOMAIN activations /\ node \in DOMAIN input_map
                THEN IF RLess(activations[node], input_map[node])
                     THEN Put(activations, node, input_map[node])
                     ELSE activations
                ELSE \* KeyError
                     IF node \in DOMAIN input_map
                     THEN Put(activations, node, input_map[node])
                     ELSE activations
         IN  MaxJunctionNode(node, input_maps, i + 1, next)

\* The outer loop over node_set in iteration order.
RECURSIVE MaxJunctionLoop(_, _, _, _)
MaxJunctionLoop(order, n, input_maps, activations) ==
    IF n > Len(order) THEN activations
    ELSE MaxJunctionLoop(order, n + 1, input_maps,
                         MaxJunctionNode(order[n], input_maps, 1, activations))

\* A slip that lets a map without the node vote 0.
MaxJunction__call__default0(input_maps, order) ==
    MaxJunctionLoop(order, 1,
        [i \in DOMAIN input_maps |->
            [k \in get_nodes(input_maps) |->
                IF k \in DOMAIN input_maps[i] THEN input_maps[i][k] ELSE R(0)]],
        EmptyMap)

MaxJunction__call__(input_maps, order) ==
    MaxJunctionLoop(order, 1, input_maps, EmptyMap)

JunctionMaps == PartialMaps(JunctionKeys, JunctionActivations)

InitJunction ==
    /\ junction \in { [pc |-> "ready", input_maps |-> m, result |-> EmptyMap]
                      : m \in UNION {[1..n -> JunctionMaps] : n \in 1..MaxMaps} }
    /\ topdown = Idle /\ bottomup = Idle /\ rule = Idle
    /\ selector = Idle /\ bla = Idle /\ stats = Idle

MaxJunctionCall ==
    /\ junction.pc = "ready"
    /\ \E order \in Orders(get_nodes(junction.input_maps)) :
          junction' = [junction EXCEPT
                         !.pc = "done",
                         !.result = MaxJunction__call__(junction.input_maps, order)]
    /\ UNCHANGED <<topdown, bottomup, rule, selector, bla, stats>>

NextJunction == MaxJunctionCall

SpecJunction == InitJunction /\ [][NextJunction]_vars

\* C1: the returned keys are the union of the input maps' keys and each key's
\* value is the maximum of its values over the maps that hold it, whatever the
\* order of the maps.
C1_MaxJunctionUnionAndMax ==
    junction.pc = "done" =>
        LET maps == {junction.input_maps[i] : i \in DOMAIN junction.input_maps}
            Holding(k) == {m \in maps : k \in DOMAIN m}
        IN  /\ DOMAIN junction.result = UNION {DOMAIN m : m \in maps}
            /\ \A k \in DOMAIN junction.result :
                  junction.result[k] = RMax({m[k] : m \in Holding(k)})

\* A call with three maps in which one key has only a negative value and
\* another key's maximum comes first.
C1_Witness ==
    /\ junction.pc = "done"
    /\ junction.input_maps =
          << (Chunk1 :> R(1)), (Chunk1 :> R(0)) @@ (White :> R(-1)), EmptyMap >>
    /\ junction.result = (Chunk1 :> R(1)) @@ (White :> R(-1))

-----------------------------------------------------------------------------
(* BLA                                                                     *)

\* The longest record of timestamps.
MaxTimestamps == 3

\* Times of updates and queries.  Every positive difference of two of them
\* (9, 16, 25) is a perfect square, so that x ** -.5 stays rational.
Times == {R(0), R(9), R(25)}
InitialActivations == {R(0), R(1)}
Amplitudes == {R(2)}
DecayRates == {R(-1), R(0), Q(1, 2), R(1)}
Densities == {R(0), Q(9, 10), R(2)}

ISqrt(n) == CHOOSE r \in 0..n : r * r = n
RSqrt(a) == <<ISqrt(a[1]), ISqrt(a[2])>>
RNeg(a) == <<-a[1], a[2]>>

\* x ** e for the exponents the decay rates give: a float, a complex number
\* (a negative base with a fractional exponent) or ZeroDivisionError (a zero
\* base with a negative exponent).
Pow(x, e) ==
    IF RIsZero(e) THEN [kind |-> "float", value |-> R(1)]
    ELSE IF RIsZero(x)
         THEN IF RLess(e, R(0))
              THEN [kind |-> "ZeroDivisionError", value |-> R(0)]
              ELSE [kind |-> "float", value |-> R(0)]
    ELSE IF e = R(1) THEN [kind |-> "float", value |-> x]
    ELSE IF e = R(-1) THEN [kind |-> "float", value |-> RDiv(R(1), x)]
    ELSE \* e = -1/2
         IF RLess(x, R(0))
         THEN [kind |-> "complex", value |-> R(0)]
         ELSE [kind |-> "float", value |-> RDiv(R(1), RSqrt(x))]

BLA__init__(initial_activation, amplitude, decay_rate, density) ==
    [initial_activation |-> initial_activation, amplitude |-> amplitude,
     decay_rate |-> decay_rate, density |-> density, timestamps |-> <<>>]

\* A slip that records a timestamp only when it is later than the last one.
BLA_update_monotone(self, current_time) ==
    IF self.timestamps = <<>>
       \/ RLess(self.timestamps[Len(self.timestamps)], current_time)
    THEN [self EXCEPT !.timestamps = Append(@, current_time)]
    ELSE self

BLA_update(self, current_time) ==
    [self EXCEPT !.timestamps = Append(@, current_time)]

\* What a call returns or raises.
Returned(kind, value, flag) ==
    [raised |-> "none", kind |-> kind, value |-> value, flag |-> flag]
Raised(error) ==
    [raised |-> error, kind |-> "none", value |-> R(0), flag |-> FALSE]

\* A slip that guards the zero base by skipping the term.
BLA_compute_bla_skip(self, current_time) ==
    LET live == {i \in DOMAIN self.timestamps :
                    self.timestamps[i] # current_time}
        terms == [i \in live |->
                    Pow(RSub(current_time, self.timestamps[i]),
                        RNeg(self.decay_rate))]
    IN  IF \E i \in live : terms[i].kind = "complex"
        THEN Returned("complex", R(0), FALSE)
        ELSE Returned("float",
                      RAdd(self.initial_activation,
                           RMul(self.amplitude,
                                RSum(live, [i \in live |-> terms[i].value]))),
                      FALSE)

BLA_compute_bla(self, current_time) ==
    LET summation_terms ==
            [i \in DOMAIN self.timestamps |->
                Pow(RSub(current_time, self.timestamps[i]),
                    RNeg(self.decay_rate))]
        I == DOMAIN summation_terms
    IN  IF \E i \in I : summation_terms[i].kind = "ZeroDivisionError"
        THEN Raised("ZeroDivisionError")
        ELSE IF \E i \in I : summation_terms[i].kind = "complex"
        THEN Returned("complex", R(0), FALSE)
        ELSE Returned("float",
                      RAdd(self.initial_activation,
                           RMul(self.amplitude,
                                RSum(I, [i \in I |-> summation_terms[i].value]))),
                      FALSE)

\* A slip that compares with <= instead of <.
BLA_below_density_le(self, current_time) ==
    LET b == BLA_compute_bla(self, current_time)
    IN  IF b.raised # "none" THEN b
        ELSE IF b.kind = "complex" THEN Raised("TypeError")
        ELSE Returned("bool", R(0), ~RLess(self.density, b.value))

\* complex < float raises TypeError.
BLA_below_density(self, current_time) ==
    LET b == BLA_compute_bla(self, current_time)
    IN  IF b.raised # "none" THEN b
        ELSE IF b.kind = "complex" THEN Raised("TypeError")
        ELSE Returned("bool", R(0), RLess(b.value, self.density))

\* bla.self is the BLA object; calls lists the arguments of the update calls
\* made so far and made is what the object was constructed with (history
\* variables); last is the latest call with what it returned.
NoCall == [op |-> "none", t |-> R(0), ret |-> Returned("none", R(0), FALSE)]

InitBLA ==
    /\ bla \in { [pc |-> "live",
                  self |-> BLA__init__(i, a, d, n),
                  made |-> BLA__init__(i, a, d, n),
                  calls |-> <<>>,
                  last |-> NoCall]
                 : i \in InitialActivations, a \in Amplitudes,
                   d \in DecayRates, n \in Densities }
    /\ topdown = Idle /\ bottomup = Idle /\ rule = Idle
    /\ junction = Idle /\ selector = Idle /\ stats = Idle

BLAUpdate ==
    /\ bla.pc = "live"
    /\ Len(bla.calls) < MaxTimestamps
    /\ \E t \in Times :
          bla' = [bla EXCEPT
                    !.self = BLA_update(bla.self, t),
                    !.calls = Append(@, t),
                    !.last = [op |-> "update", t |-> t,
                              ret |-> Returned("none", R(0), FALSE)]]
    /\ UNCHANGED <<topdown, bottomup, rule, junction, selector, stats>>

BLAComputeBla ==
    /\ bla.pc = "live"
    /\ \E t \in Times :
          bla' = [bla EXCEPT
                    !.last = [op |-> "compute_bla", t |-> t,
                              ret |-> BLA_compute_bla(bla.self, t)]]
    /\ UNCHANGED <<topdown, bottomup, rule, junction, selector, stats>>

BLABelowDensity ==
    /\ bla.pc = "live"
    /\ \E t \in Times :
          bla' = [bla EXCEPT
                    !.last = [op |-> "below_density", t |-> t,
                              ret |-> BLA_below_density(bla.self, t)]]
    /\ UNCHANGED <<topdown, bottomup, rule, junction, selector, stats>>

\* The owner assigns the density attribute (as test_below_density does).
BLASetDensity ==
    /\ bla.pc = "live"
    /\ \E n \in Densities :
          /\ n # bla.self.density
          /\ bla' = [bla EXCEPT
                       !.self.density = n,
                       !.made.density = n,
                       !.last = [op |-> "set_density", t |-> R(0),
                                 ret |-> Returned("none", R(0), FALSE)]]
    /\ UNCHANGED <<topdown, bottomup, rule, junction, selector, stats>>

NextBLA == BLAUpdate \/ BLAComputeBla \/ BLABelowDensity \/ BLASetDensity

SpecBLA == InitBLA /\ [][NextBLA]_vars

\* t is later than every recorded timestamp.
LaterThanAll(self, t) ==
    \A i \in DOMAIN self.timestamps : RLess(self.timestamps[i], t)

\* initial_activation + amplitude * the sum, one term per update call, of
\* (t - call) ** -decay_rate.
BLAExpected(made, calls, t) ==
    RAdd(made.initial_activation,
         RMul(made.amplitude,
              RSum(DOMAIN calls,
                   [i \in DOMAIN calls |->
                      Pow(RSub(t, calls[i]), RNeg(made.decay_rate)).value])))

\* C6: every update appends its argument at the end of the record whatever
\* its order, queries leave the record and the parameters alone, and
\* compute_bla at a time later than every recorded timestamp returns
\* initial_activation + amplitude * sum over the update calls made so far of
\* (t_now - t) ** -decay_rate.
C6_BLARecordsEveryUpdate ==
    bla.pc = "live" =>
        /\ bla.self = [bla.made EXCEPT !.timestamps = bla.calls]
        /\ (bla.last.op = "update" =>
               bla.self.timestamps[Len(bla.self.timestamps)] = bla.last.t)
        /\ \A t \in Times :
              LaterThanAll(bla.self, t) =>
                  BLA_compute_bla(bla.self, t) =
                      Returned("float", BLAExpected(bla.made, bla.calls, t), FALSE)
        /\ (bla.last.op = "compute_bla" /\ LaterThanAll(bla.self, bla.last.t) =>
               bla.last.ret =
                   Returned("float",
                            BLAExpected(bla.made, bla.calls, bla.last.t), FALSE))

\* Updates at 9, 0 and 0 (out of order, a duplicate), then compute_bla(25)
\* with the default parameters: 2 * (1/4 + 1/5 + 1/5).
C6_Witness ==
    /\ bla.pc = "live"
    /\ bla.calls = <<R(9), R(0), R(0)>>
    /\ bla.self.timestamps = <<R(9), R(0), R(0)>>
    /\ bla.self.decay_rate = Q(1, 2)
    /\ bla.self.initial_activation = R(0)
    /\ bla.last.op = "compute_bla"
    /\ bla.last.t = R(25)
    /\ bla.last.ret = Returned("float", Q(13, 10), FALSE)

Recorded(self, t) == \E i \in DOMAIN self.timestamps : self.timestamps[i] = t

C10_BelowDensityIsStrictComparison ==
    bla.pc = "live" =>
        /\ \A t \in Times :
              LET b == BLA_compute_bla(bla.self, t)
              IN  (b.raised = "none" /\ b.kind = "float") =>
                      BLA_below_density(bla.self, t) =
                          Returned("bool", R(0), RLess(b.value, bla.self.density))
        /\ (bla.last.op = "below_density" =>
               LET b == BLA_compute_bla(bla.self, bla.last.t)
               IN  (b.raised = "none" /\ b.kind = "float") =>
                       bla.last.ret =
                           Returned("bool", R(0), RLess(b.value, bla.self.density)))

\* below_density at a time where the BLA of a non-empty record equals the
\* density exactly (2.): it returns False.
C10_Witness ==
    /\ bla.pc = "live"
    /\ bla.self.timestamps # <<>>
    /\ bla.self.density # bla.made.initial_activation
    /\ bla.self.density = R(2)
    /\ bla.last.op = "below_density"
    /\ BLA_compute_bla(bla.self, bla.last.t) = Returned("float", R(2), FALSE)
    /\ bla.last.ret = Returned("bool", R(0), FALSE)

-----------------------------------------------------------------------------
(* MatchStatistics                                                         *)

\* The most calls made on one MatchStatistics object.
MaxCalls == 4
Multipliers == {R(-1), R(0), Q(1, 2), R(2)}

MatchStatistics__init__ ==
    [positive_matches |-> R(0), negative_matches |-> R(0)]

MatchStatistics_update(self, positive_match) ==
    IF positive_match
    THEN [self EXCEPT !.positive_matches = RAdd(@, R(1))]
    ELSE [self EXCEPT !.negative_matches = RAdd(@, R(1))]

\* A slip that discounts the positive counter only.
MatchStatistics_discount_positive(self, multiplier) ==
    [self EXCEPT !.positive_matches = RMul(@, multiplier)]

MatchStatistics_discount(self, multiplier) ==
    [self EXCEPT !.positive_matches = RMul(@, multiplier),
                 !.negative_matches = RMul(@, multiplier)]

\* stats.self is the object; log lists the calls made so far and states the
\* object before each of them (history variables).
InitStats ==
    /\ stats = [pc |-> "live", self |-> MatchStatistics__init__,
                log |-> <<>>, states |-> <<>>]
    /\ topdown = Idle /\ bottomup = Idle /\ rule = Idle
    /\ junction = Idle /\ selector = Idle /\ bla = Idle

StatsUpdate ==
    /\ stats.pc = "live"
    /\ Len(stats.log) < MaxCalls
    /\ \E positive_match \in BOOLEAN :
          stats' = [stats EXCEPT
                      !.self = MatchStatistics_update(stats.self, positive_match),
                      !.log = Append(@, [op |-> "update", multiplier |-> R(1)]),
                      !.states = Append(@, stats.self)]
    /\ UNCHANGED <<topdown, bottomup, rule, junction, selector, bla>>

StatsDiscount ==
    /\ stats.pc = "live"
    /\ Len(stats.log) < MaxCalls
    /\ \E multiplier \in Multipliers :
          stats' = [stats EXCEPT
                      !.self = MatchStatistics_discount(stats.self, multiplier),
                      !.log = Append(@, [op |-> "discount",
                                         multiplier |-> multiplier]),
                      !.states = Append(@, stats.self)]
    /\ UNCHANGED <<topdown, bottomup, rule, junction, selector, bla>>

NextStats == StatsUpdate \/ StatsDiscount

SpecStats == InitStats /\ [][NextStats]_vars

\* C9: after discount(m1) and then discount(m2) both counters are what one
\* discount(m1 * m2) makes them from the state before the two calls, each
\* counter being multiplied and nothing else changed.
C9_DiscountComposes ==
    (/\ stats.pc = "live"
     /\ Len(stats.log) >= 2
     /\ stats.log[Len(stats.log)].op = "discount"
     /\ stats.log[Len(stats.log) - 1].op = "discount") =>
        LET n == Len(stats.log)
            before == stats.states[n - 1]
            m == RMul(stats.log[n - 1].multiplier, stats.log[n].multiplier)
        IN  /\ stats.self = MatchStatistics_discount(before, m)
            /\ stats.self = [positive_matches |-> RMul(before.positive_matches, m),
                             negative_matches |-> RMul(before.negative_matches, m)]

\* update(True), update(False), discount(.5), discount(.5): both counters .25.
C9_Witness ==
    /\ stats.pc = "live"
    /\ Len(stats.log) = 4
    /\ stats.log[3] = [op |-> "discount", multiplier |-> Q(1, 2)]
    /\ stats.log[4] = [op |-> "discount", multiplier |-> Q(1, 2)]
    /\ stats.states[3] = [positive_matches |-> R(1), negative_matches |-> R(1)]
    /\ stats.self = [positive_matches |-> Q(1, 4), negative_matches |-> Q(1, 4)]

-----------------------------------------------------------------------------
(* BoltzmannSelector                                                       *)

SelectorChunks == {Chunk1, Chunk2, Chunk3}
Temperatures == {R(0), Q(1, 2), R(2)}
SelectorStrengths == {R(-1), R(0), R(1)}

\* ChunkSelector.__init__ keeps the candidate chunks in self.chunks.
BoltzmannSelector__init__(chunks, temperature) ==
    [chunks |-> chunks, temperature |-> temperature]

\* numpy.exp(x), kept symbolic: a positive number for every x, 1.0 for x = 0.
Exp(x) == [exp |-> x]
One == Exp(R(0))

\* terms[chunk] / divisor, the divisor being the sum of all the terms.  A
\* quotient is positive when its term is one of the (positive) terms summed,
\* and numpy.random.choice draws only entries of positive probability.
Probability(terms, chunk) == [term |-> terms[chunk], divisor |-> terms]
IsPositive(p) == \E c \in DOMAIN p.divisor : p.divisor[c] = p.term

\* A slip that leaves a candidate missing from the input without a term.
BoltzmannSelector__call__skip(self, chunk2strength) ==
    LET found == self.chunks \cap DOMAIN chunk2strength
        terms == [chunk \in found |->
                    Exp(RDiv(chunk2strength[chunk], self.temperature))]
    IN  IF found # {} /\ RIsZero(self.temperature)
        THEN {Raised("ZeroDivisionError")}
        ELSE IF found = {}
        THEN {Raised("ValueError")}
        ELSE {[raised |-> "none", value |-> {choice}] : choice \in found}

\* The outcomes of one call: ZeroDivisionError when a strength is divided by
\* a temperature of 0, ValueError from numpy.random.choice on an empty list,
\* and otherwise {choice} for any chunk of the list with a positive
\* probability.
BoltzmannSelector__call__(self, chunk2strength) ==
    LET found == self.chunks \cap DOMAIN chunk2strength
        terms == [chunk \in self.chunks |->
                    IF chunk \in found
                    THEN Exp(RDiv(chunk2strength[chunk],
                                  IF RIsZero(self.temperature) THEN R(1)
                                  ELSE self.temperature))
                    ELSE One]
        chunk_list == self.chunks
        probabilities == [chunk \in chunk_list |-> Probability(terms, chunk)]
    IN  IF found # {} /\ RIsZero(self.temperature)
        THEN {Raised("ZeroDivisionError")}
        ELSE IF chunk_list = {}
        THEN {Raised("ValueError")}
        ELSE {[raised |-> "none", value |-> {choice}]
                : choice \in {c \in chunk_list : IsPositive(probabilities[c])}}

InitSelector ==
    /\ selector \in { [pc |-> "ready",
                       self |-> BoltzmannSelector__init__(c, t),
                       chunk2strength |-> i,
                       result |-> Raised("none")]
                      : c \in SUBSET SelectorChunks, t \in Temperatures,
                        i \in PartialMaps(SelectorChunks, SelectorStrengths) }
    /\ topdown = Idle /\ bottomup = Idle /\ rule = Idle
    /\ junction = Idle /\ bla = Idle /\ stats = Idle

SelectorCall ==
    /\ selector.pc = "ready"
    /\ \E outcome \in BoltzmannSelector__call__(selector.self,
                                                selector.chunk2strength) :
          selector' = [selector EXCEPT !.pc = "done", !.result = outcome]
    /\ UNCHANGED <<topdown, bottomup, rule, junction, bla, stats>>

NextSelector == SelectorCall

SpecSelector == InitSelector /\ [][NextSelector]_vars

\* C5: with a non-empty candidate set and a temperature above 0 every call
\* returns a set of exactly one chunk of the candidate set; a candidate that
\* the input lacks can be the one returned, a chunk outside the candidate set
\* never is.
C5_SelectorReturnsOneCandidate ==
    LET self == selector.self
        ok == self.chunks # {} /\ RLess(R(0), self.temperature)
    IN  /\ (selector.pc = "done" /\ ok) =>
               /\ selector.result.raised = "none"
               /\ Cardinality(selector.result.value) = 1
               /\ selector.result.value \subseteq self.chunks
        /\ (selector.pc = "ready" /\ ok) =>
               \A c \in self.chunks \ DOMAIN selector.chunk2strength :
                  [raised |-> "none", value |-> {c}] \in
                      BoltzmannSelector__call__(self, selector.chunk2strength)

\* A call that returned a candidate missing from an input that holds a
\* stronger candidate and a chunk outside the candidate set.
C5_Witness ==
    /\ selector.pc = "done"
    /\ selector.self.chunks = {Chunk1, Chunk2}
    /\ selector.self.temperature = Q(1, 2)
    /\ selector.chunk2strength = (Chunk1 :> R(1)) @@ (Chunk3 :> R(1))
    /\ selector.result = [raised |-> "none", value |-> {Chunk2}]

-----------------------------------------------------------------------------
(* All the components together.                                            *)

Init ==
    \/ InitTopDown \/ InitBottomUp \/ InitRule \/ InitJunction
    \/ InitSelector \/ InitBLA \/ InitStats

Next ==
    \/ NextTopDown \/ NextBottomUp \/ NextRule \/ NextJunction
    \/ NextSelector \/ NextBLA \/ NextStats

Spec == Init /\ [][Next]_vars

====
